---- MODULE Spec2Model ----
(***************************************************************************)
(* Model of src/app.py: a LINE webhook that registers schedule entries     *)
(* through a two-step datetime-picker protocol, lists a day's entries and  *)
(* builds a daily report.                                                  *)
(*                                                                         *)
(* Strings are sequences of one-character strings, so that substring       *)
(* tests, str.split, str.startswith and str.strip are computed as Python   *)
(* computes them.  A datetime is a number of slots since day 0; the picker *)
(* hands back an ISO string, modelled as the record [day, slot], which     *)
(* datetime.fromisoformat converts.                                        *)
(***************************************************************************)
EXTENDS Integers, Sequences, FiniteSets, TLC

-----------------------------------------------------------------------------
(* Bounds of the model *)

\* longest free text drawn over Alphabet
MaxLen == 1
\* most entries the store holds before creates are no longer explored
MaxStore == 1
\* the same cap where the day listings are explored
MaxRows == 2

Users == {"U1", "U2"}
Alphabet == {"a", "&", "="}
\* the calendar days and the HH:MM values the picker can return
Days == {0, 1}
Slots == {0, 1}
SlotsPerDay == Cardinality(Slots)

-----------------------------------------------------------------------------
(* Python string primitives *)

RECURSIVE SeqsUpTo(_)
SeqsUpTo(n) ==
    IF n = 0 THEN {<<>>}
    ELSE LET shorter == SeqsUpTo(n - 1)
         IN  shorter \cup {Append(s, c) : s \in {t \in shorter : Len(t) = n - 1}, c \in Alphabet}

\* sub in s
Contains(s, sub) ==
    \E i \in 0..(Len(s) - Len(sub)) : SubSeq(s, i + 1, i + Len(sub)) = sub

\* s.startswith(p)
StartsWith(s, p) ==
    /\ Len(p) <= Len(s)
    /\ SubSeq(s, 1, Len(p)) = p

\* s.split(sep) for a one-character separator: "a&&b" gives ["a", "", "b"]
RECURSIVE Split(_, _)
Split(s, sep) ==
    IF \A i \in 1..Len(s) : s[i] # sep THEN <<s>>
    ELSE LET k == CHOOSE i \in 1..Len(s) :
                      /\ s[i] = sep
                      /\ \A j \in 1..(i - 1) : s[j] # sep
         IN  <<SubSeq(s, 1, k - 1)>> \o Split(SubSeq(s, k + 1, Len(s)), sep)

\* s.strip()
RECURSIVE Strip(_)
Strip(s) ==
    IF s = <<>> THEN s
    ELSE IF Head(s) = " " THEN Strip(Tail(s))
    ELSE IF s[Len(s)] = " " THEN Strip(SubSeq(s, 1, Len(s) - 1))
    ELSE s

-----------------------------------------------------------------------------
(* Literals of the program *)

\* "予定確認", one token per character
CheckPhrase == <<"yo", "tei", "kaku", "nin">>
\* "日報作成", one token per character
ReportPhrase == <<"nichi", "hou", "saku", "sei">>

ActionScheduleTag == <<"a","c","t","i","o","n","=","s","c","h","e","d","u","l","e">>
ActionCheckTag ==
    <<"a","c","t","i","o","n","=","c","h","e","c","k","_","s","c","h","e","d","u","l","e">>
ActionReportTag ==
    <<"a","c","t","i","o","n","=","g","e","n","e","r","a","t","e","_","r","e","p","o","r","t">>
UserMessageKey == <<"u","s","e","r","_","m","e","s","s","a","g","e","=">>
UserIdKey == <<"u","s","e","r","_","i","d","=">>

\* A value of params['datetime'] is a string; its form tells what
\* datetime.fromisoformat makes of it.
IsoString(d, s) == [form |-> "iso", day |-> d, slot |-> s]
\* the default of params.get('datetime', '不明')
Unknown == [form |-> "fumei", day |-> 0, slot |-> 0]
\* a string datetime.fromisoformat rejects with ValueError
Malformed == [form |-> "garbage", day |-> 0, slot |-> 0]

IsoStrings == {IsoString(d, s) : d \in Days, s \in Slots}
DatetimeParams == IsoStrings \cup {Unknown, Malformed}

\* texts a user can send: every string over Alphabet up to MaxLen, the two
\* trigger phrases, a text that spells another intent's tag, a text to strip, a
\* text of white space only and a text that spells a second user_message field
Texts ==
    SeqsUpTo(MaxLen)
    \cup {CheckPhrase, ReportPhrase, ActionCheckTag, <<" ", "a">>, <<" ">>,
          <<"a", "&">> \o UserMessageKey}

\* postback payloads that no picker of this program carries
RawPayloads == {ActionScheduleTag}
\* and the datetimes tried with them
RawDatetimes == {Unknown, IsoString(0, 0)}

-----------------------------------------------------------------------------
(* datetime *)

\* datetime.fromisoformat(s) returns for the iso form and raises ValueError for
\* every other string, the default '不明' included
parses(s) == s.form = "iso"
fromisoformat(s) == s.day * SlotsPerDay + s.slot
\* datetime.date()
date(t) == t \div SlotsPerDay
\* the datetime a date compares as: midnight of that day
midnight(d) == d * SlotsPerDay
\* strftime('%H:%M')
strftime_HM(t) == t % SlotsPerDay

-----------------------------------------------------------------------------
(* The store: table schedules and the process-wide session *)

\* a row of table schedules; created_at is written once and never read
Schedule(id, user_id, message, scheduled_datetime) ==
    [id |-> id, user_id |-> user_id, message |-> message,
     scheduled_datetime |-> scheduled_datetime]

\* the session holds the objects added and not yet flushed; active is FALSE
\* between a failed flush and the rollback that must follow it
NewSession == [new |-> <<>>, active |-> TRUE]

session_add(sess, obj) == [sess EXCEPT !.new = Append(@, obj)]

\* a flush that writes over the newest row instead of inserting
flush_overwrite(table, new) ==
    IF new = <<>> THEN table
    ELSE IF table = <<>> THEN <<[new[Len(new)] EXCEPT !.id = 1]>>
    ELSE [table EXCEPT ![Len(table)] = [new[Len(new)] EXCEPT !.id = Len(table)]]

\* a flush into a table that takes one row per (user_id, message, scheduled_datetime)
flush_unique(table, new) ==
    IF new = <<>> THEN table
    ELSE IF \E j \in 1..Len(table) :
              /\ table[j].user_id = Head(new).user_id
              /\ table[j].message = Head(new).message
              /\ table[j].scheduled_datetime = Head(new).scheduled_datetime
      THEN table
    ELSE Append(table, [Head(new) EXCEPT !.id = Len(table) + 1])

\* ids are assigned by the table in flush order
RECURSIVE flush(_, _)
flush(table, new) ==
    IF new = <<>> THEN table
    ELSE flush(Append(table, [Head(new) EXCEPT !.id = Len(table) + 1]), Tail(new))

\* a commit whose failure leaves the flushed rows in the table
session_commit_partial(table, sess, ok) ==
    IF ~sess.active
      THEN [table |-> table, sess |-> sess, raised |-> TRUE]
    ELSE IF ok \/ sess.new = <<>>
      THEN [table |-> table \o sess.new, sess |-> NewSession, raised |-> FALSE]
    ELSE [table |-> table \o sess.new, sess |-> [sess EXCEPT !.active = FALSE],
          raised |-> TRUE]

\* session.commit(): raises on an inactive session; flushes everything pending and
\* commits it, or (ok = FALSE) fails in the flush, commits nothing and leaves the
\* session inactive.  With nothing pending there is nothing to fail.
session_commit(table, sess, ok) ==
    IF ~sess.active
      THEN [table |-> table, sess |-> sess, raised |-> TRUE]
    ELSE IF ok \/ sess.new = <<>>
      THEN [table |-> flush(table, sess.new), sess |-> NewSession, raised |-> FALSE]
    ELSE [table |-> table, sess |-> [sess EXCEPT !.active = FALSE], raised |-> TRUE]

\* session.rollback(): pending objects are expunged
session_rollback(sess) == NewSession

\* ORDER BY names one key, and SQL leaves the order of rows of equal key to the
\* database.  rank is the database's choice for one query: a bijection on the
\* row ids, rows of equal key coming out by ascending rank.  insertion_rank
\* is the choice that keeps table order.
insertion_rank(n) == [id \in 1..n |-> id]
Ranks(n) == Permutations(1..n)

before(a, b, rank) ==
    \/ a.scheduled_datetime < b.scheduled_datetime
    \/ /\ a.scheduled_datetime = b.scheduled_datetime
       /\ rank[a.id] < rank[b.id]

\* order_by(Schedule.scheduled_datetime)
RECURSIVE order_by(_, _)
order_by(rows, rank) ==
    IF rows = <<>> THEN <<>>
    ELSE LET i == CHOOSE k \in 1..Len(rows) :
                      \A j \in 1..Len(rows) : j = k \/ before(rows[k], rows[j], rank)
         IN  <<rows[i]>>
             \o order_by(SubSeq(rows, 1, i - 1) \o SubSeq(rows, i + 1, Len(rows)), rank)

\* the filter with the end of the day included
in_day_closed(row, selected_date) ==
    /\ row.scheduled_datetime >= midnight(selected_date)
    /\ row.scheduled_datetime <= midnight(selected_date + 1)

\* the filter with the start of the day left out
in_day_after_midnight(row, selected_date) ==
    /\ row.scheduled_datetime > midnight(selected_date)
    /\ row.scheduled_datetime < midnight(selected_date + 1)

\* the filter of both day queries: scheduled_datetime in [date, date + 1 day)
in_day(row, selected_date) ==
    /\ row.scheduled_datetime >= midnight(selected_date)
    /\ row.scheduled_datetime < midnight(selected_date + 1)

\* session.query(Schedule).filter(...).order_by(...).all()
query_day(table, selected_date, rank) ==
    order_by(SelectSeq(table, LAMBDA row : in_day(row, selected_date)), rank)

-----------------------------------------------------------------------------
(* handle_message: phase 1, the picker prompt *)

\* f"{user_id}": a user id is spelt as one token
chars(user_id) == <<user_id>>

\* the data of the picker pushed for a text
picker_data(text, user_id) ==
    LET user_message == Strip(text)
    IN  IF user_message = CheckPhrase
          THEN ActionCheckTag \o <<"&">> \o UserIdKey \o chars(user_id)
        ELSE IF user_message = ReportPhrase
          THEN ActionReportTag \o <<"&">> \o UserIdKey \o chars(user_id)
        ELSE ActionScheduleTag \o <<"&">> \o UserMessageKey \o user_message

\* the intent a text is taken for: the if, the elif and the else of lines 88-153
intent_of(text) ==
    LET user_message == Strip(text)
    IN  IF user_message = CheckPhrase THEN "check_schedule"
        ELSE IF user_message = ReportPhrase THEN "generate_report"
        ELSE "schedule"

\* An instant of the clock is a record [day, hour, minute, second].
\* timedelta(days=n) moves the day
plus_days(t, n) == [t EXCEPT !.day = @ + n]
\* replace(minute=0, second=0)
on_the_hour(t) == [t EXCEPT !.minute = 0, !.second = 0]
\* strftime("%Y-%m-%dT%H:%M"): the seconds are not printed
strftime_minute(t) == [day |-> t.day, hour |-> t.hour, minute |-> t.minute]

\* timedelta(days=365), lines 96-97, 128-129 and 161-162
PickerSpanDays == 365

\* a window whose min is computed with the max's sign
window_report_min_after(now) ==
    [initial |-> strftime_minute(on_the_hour(now)),
     min |-> strftime_minute(plus_days(now, PickerSpanDays)),
     max |-> strftime_minute(plus_days(now, PickerSpanDays))]

\* initial, min and max of the picker, once per intent as in the source
\* lines 90-97
window_check(now) ==
    [initial |-> strftime_minute(on_the_hour(now)),
     min |-> strftime_minute(plus_days(now, 0 - PickerSpanDays)),
     max |-> strftime_minute(plus_days(now, PickerSpanDays))]
\* lines 122-129
window_report(now) ==
    [initial |-> strftime_minute(on_the_hour(now)),
     min |-> strftime_minute(plus_days(now, 0 - PickerSpanDays)),
     max |-> strftime_minute(plus_days(now, PickerSpanDays))]
\* lines 155-162
window_schedule(now) ==
    [initial |-> strftime_minute(on_the_hour(now)),
     min |-> strftime_minute(plus_days(now, 0 - PickerSpanDays)),
     max |-> strftime_minute(plus_days(now, PickerSpanDays))]

\* the template message handed to push_message(user_id, template_message),
\* built at instant now
template_message(text, user_id, now) ==
    LET window == IF intent_of(text) = "check_schedule" THEN window_check(now)
                  ELSE IF intent_of(text) = "generate_report" THEN window_report(now)
                  ELSE window_schedule(now)
    IN  [to |-> user_id, data |-> picker_data(text, user_id),
         initial |-> window.initial, min |-> window.min, max |-> window.max]

NoInstant == [day |-> 0, hour |-> 0, minute |-> 0, second |-> 0]
NoPicker ==
    [to |-> "nobody", data |-> <<>>, initial |-> strftime_minute(NoInstant),
     min |-> strftime_minute(NoInstant), max |-> strftime_minute(NoInstant)]

\* the instants at which text messages arrive: one for the specifications that
\* are about the store, a spread of them for the one about the picker window
Noon == [day |-> 1000, hour |-> 12, minute |-> 30, second |-> 15]
Instants ==
    {[day |-> d, hour |-> h, minute |-> m, second |-> sec] :
        d \in {400, 1000}, h \in {0, 23}, m \in {0, 59}, sec \in {0, 59}}

-----------------------------------------------------------------------------
(* handle_postback: phase 2 *)

\* lines 192-196: the last part that starts with "user_message=" decides, and of
\* it the piece after its last "="; found is FALSE for Python's None
parse_user_message(data) ==
    LET data_parts == Split(data, "&")
        hits == SelectSeq(data_parts, LAMBDA part : StartsWith(part, UserMessageKey))
    IN  IF hits = <<>> THEN [found |-> FALSE, value |-> <<>>]
        ELSE LET pieces == Split(hits[Len(hits)], "=")
             IN  [found |-> TRUE, value |-> pieces[Len(pieces)]]

\* line 200 without its test of the datetime
valid_input_any_datetime(user_message, schedule_datetime) ==
    /\ user_message.found
    /\ user_message.value # <<>>

\* line 200 taking an empty user_message for a message
valid_input_empty_text(user_message, schedule_datetime) ==
    /\ user_message.found
    /\ schedule_datetime # Unknown

\* line 200: user_message and schedule_datetime != '不明'
valid_input(user_message, schedule_datetime) ==
    /\ user_message.found
    /\ user_message.value # <<>>
    /\ schedule_datetime # Unknown

\* the texts of the replies
SavedText(message, schedule_datetime) ==
    [kind |-> "saved", message |-> message, datetime |-> schedule_datetime]
StoreErrorText == [kind |-> "store_error"]
InvalidText == [kind |-> "invalid"]
DateFailedText == [kind |-> "date_failed"]
\* f"{HH:MM} - {message}"
line_of(row) == [hm |-> strftime_HM(row.scheduled_datetime), message |-> row.message]
lines_of(rows) == [i \in 1..Len(rows) |-> line_of(rows[i])]
ListText(selected_date, rows) ==
    [kind |-> "list", date |-> selected_date, lines |-> lines_of(rows)]
NoEventsText(selected_date) == [kind |-> "no_events", date |-> selected_date]
ReportText(selected_date, rows) ==
    [kind |-> "report", date |-> selected_date, lines |-> lines_of(rows)]
NoReportText(selected_date) == [kind |-> "no_report", date |-> selected_date]
\* the text of the first candidate generate_content returns for a prompt
GeneratedText(prompt) == [kind |-> "generated", prompt |-> prompt]
NoCandidateText == [kind |-> "ai_no_response"]
AttributeErrorText == [kind |-> "ai_attribute_error"]
GenerationErrorText == [kind |-> "ai_error"]
NoText == [kind |-> "none"]

\* what the generation collaborator does when asked
GenOutcomes == {"candidate", "no_candidate", "attribute_error", "error", "unavailable"}

\* A frame is the state a handler runs on and what it has done so far:
\*   store, session   the table and the session
\*   replies          the texts handed to reply_message with the event's reply token
\*   branches         the ifs of handle_postback whose body was entered
\*   query_calls      queries sent to the store
\*   gen_calls        calls of generate_content
\*   response_text    the local response_text, once assigned
\*   write_failed     the except branch of the write was taken
\*   raised           an exception left the handler
Frame(table, sess) ==
    [store |-> table, session |-> sess, replies |-> <<>>, branches |-> {},
     query_calls |-> 0, gen_calls |-> 0, response_text |-> NoText,
     write_failed |-> FALSE, raised |-> FALSE]

\* the body of one of the three ifs is entered
enter(f, branch) == [f EXCEPT !.branches = @ \cup {branch}]

\* line_bot_api.reply_message(event.reply_token, message) inside try/except: an
\* attempt is an attempt whether or not the send succeeds
reply_message(f, text) == [f EXCEPT !.replies = Append(@, text)]

\* lines 190-225
schedule_branch(f, ev, commit_ok) ==
    IF ~Contains(ev.data, ActionScheduleTag) THEN f
    ELSE
      LET user_message == parse_user_message(ev.data)
          schedule_datetime == ev.datetime
          g == enter(f, "schedule")
      IN  IF valid_input(user_message, schedule_datetime)
            THEN IF ~parses(schedule_datetime)
                   THEN \* fromisoformat raises inside the try
                        reply_message(
                          [g EXCEPT !.session = session_rollback(@), !.write_failed = TRUE],
                          StoreErrorText)
                 ELSE
                   LET schedule == Schedule(0, ev.user_id, user_message.value,
                                            fromisoformat(schedule_datetime))
                       added == session_add(g.session, schedule)
                       done == session_commit(g.store, added, commit_ok)
                   IN  IF done.raised
                         THEN reply_message(
                                [g EXCEPT !.store = done.table,
                                          !.session = session_rollback(done.sess),
                                          !.write_failed = TRUE],
                                StoreErrorText)
                       ELSE reply_message(
                              [g EXCEPT !.store = done.table, !.session = done.sess],
                              SavedText(user_message.value, schedule_datetime))
          ELSE reply_message(g, InvalidText)

\* the check branch sending its query before it looks at the datetime
check_branch_queries_first(f, ev, query_ok, rank) ==
    IF f.raised \/ ~Contains(ev.data, ActionCheckTag) THEN f
    ELSE
      LET g == [enter(f, "check_schedule") EXCEPT !.query_calls = @ + 1]
      IN  IF ev.datetime # Unknown
            THEN IF ~parses(ev.datetime) \/ ~query_ok THEN [g EXCEPT !.raised = TRUE]
                 ELSE
                   LET selected_date == date(fromisoformat(ev.datetime))
                       schedules == query_day(g.store, selected_date, rank)
                   IN  IF schedules # <<>>
                         THEN reply_message(g, ListText(selected_date, schedules))
                       ELSE reply_message(g, NoEventsText(selected_date))
          ELSE reply_message(g, DateFailedText)

\* lines 226-256
check_branch(f, ev, query_ok, rank) ==
    IF f.raised \/ ~Contains(ev.data, ActionCheckTag) THEN f
    ELSE
      LET selected_date_str == ev.datetime
          g == enter(f, "check_schedule")
      IN  IF selected_date_str # Unknown
            THEN IF ~parses(selected_date_str)
                   THEN \* fromisoformat raises outside any try
                        [g EXCEPT !.raised = TRUE]
                 ELSE IF ~query_ok
                   THEN \* so does the query
                        [g EXCEPT !.query_calls = @ + 1, !.raised = TRUE]
                 ELSE
                   LET selected_date == date(fromisoformat(selected_date_str))
                       schedules == query_day(g.store, selected_date, rank)
                       h == [g EXCEPT !.query_calls = @ + 1]
                   IN  IF schedules # <<>>
                         THEN reply_message(h, ListText(selected_date, schedules))
                       ELSE reply_message(h, NoEventsText(selected_date))
          ELSE reply_message(g, DateFailedText)

\* lines 283-309: the prompt wraps report_text in the fixed template
prompt_of(report_text) == [template |-> "medical_record", source |-> report_text]

\* lines 312-336: the try block around the generation call
generate(f, prompt, gen) ==
    IF gen = "unavailable"
      THEN \* genai.GenerativeModel raises before generate_content is reached
           [f EXCEPT !.response_text = GenerationErrorText]
    ELSE LET called == [f EXCEPT !.gen_calls = @ + 1]
         IN  CASE gen = "candidate" ->
                    [called EXCEPT !.response_text = GeneratedText(prompt)]
               [] gen = "no_candidate" ->
                    [called EXCEPT !.response_text = NoCandidateText]
               [] gen = "attribute_error" ->
                    [called EXCEPT !.response_text = AttributeErrorText]
               [] OTHER ->
                    [called EXCEPT !.response_text = GenerationErrorText]

\* the report branch replying with response_text when the listing is not empty
report_branch_replies_response(f, ev, query_ok, rank, gen) ==
    IF f.raised \/ ~Contains(ev.data, ActionReportTag) THEN f
    ELSE
      LET g == enter(f, "generate_report")
      IN  IF ev.datetime # Unknown
            THEN IF ~parses(ev.datetime) THEN [g EXCEPT !.raised = TRUE]
                 ELSE IF ~query_ok
                   THEN [g EXCEPT !.query_calls = @ + 1, !.raised = TRUE]
                 ELSE
                   LET selected_date == date(fromisoformat(ev.datetime))
                       schedules == query_day(g.store, selected_date, rank)
                       h == [g EXCEPT !.query_calls = @ + 1]
                       report_text == IF schedules # <<>>
                                        THEN ReportText(selected_date, schedules)
                                      ELSE NoReportText(selected_date)
                       generated == generate(h, prompt_of(report_text), gen)
                   IN  reply_message(generated,
                                     IF schedules # <<>> THEN generated.response_text
                                     ELSE report_text)
          ELSE reply_message(g, DateFailedText)

\* lines 258-350
report_branch(f, ev, query_ok, rank, gen) ==
    IF f.raised \/ ~Contains(ev.data, ActionReportTag) THEN f
    ELSE
      LET selected_date_str == ev.datetime
          g == enter(f, "generate_report")
      IN  IF selected_date_str # Unknown
            THEN IF ~parses(selected_date_str)
                   THEN [g EXCEPT !.raised = TRUE]
                 ELSE IF ~query_ok
                   THEN [g EXCEPT !.query_calls = @ + 1, !.raised = TRUE]
                 ELSE
                   LET selected_date == date(fromisoformat(selected_date_str))
                       schedules == query_day(g.store, selected_date, rank)
                       h == [g EXCEPT !.query_calls = @ + 1]
                       report_text == IF schedules # <<>>
                                        THEN ReportText(selected_date, schedules)
                                      ELSE NoReportText(selected_date)
                       generated == generate(h, prompt_of(report_text), gen)
                   IN  \* line 343: the reply is built from report_text
                       reply_message(generated, report_text)
          ELSE reply_message(g, DateFailedText)

\* the three ifs of handle_postback, in order
handle_postback(f, ev, commit_ok, query_ok, rank, gen) ==
    report_branch(
        check_branch(schedule_branch(f, ev, commit_ok), ev, query_ok, rank),
        ev, query_ok, rank, gen)

-----------------------------------------------------------------------------
(* State *)

VARIABLES
    store,          \* the committed rows of table schedules, in insertion order
    session,        \* the process-wide session (line 40)
    pushed,         \* the picker most recently delivered by push_message
    event,          \* the webhook event of the request being served: its kind and
                    \* sender and, of a postback, its data and picked datetime
    status,         \* HTTP status the request being served ends with, 0 when none is
    replies,        \* reply attempts made with the event's reply token
    gen_calls,      \* calls of generate_content made for the event
    response_text,  \* the local response_text as the handler left it
    write_failed,   \* the handler took the except branch of the write
    branches,       \* the ifs of handle_postback whose body was entered
    query_calls,    \* queries the handler sent to the store
    pc,             \* per host thread: where its handle_postback stands
    req,            \* per host thread: the locals of its handle_postback
    outcome         \* per host thread: the reply it attempted

served == <<pushed, event, status, replies, gen_calls, response_text, write_failed,
            branches, query_calls>>
threads == <<pc, req, outcome>>
vars == <<store, session, served, threads>>

\* the threads of the host that serve requests in parallel
Threads == {1, 2}
NoRequest == [user_id |-> "nobody", user_message |-> <<>>, schedule_datetime |-> Unknown]

NoEvent ==
    [kind |-> "none", user_id |-> "nobody", data |-> <<>>, datetime |-> Unknown,
     picker |-> FALSE, now |-> NoInstant]

Init ==
    /\ store = <<>>
    /\ session = NewSession
    /\ pushed = NoPicker
    /\ event = NoEvent
    /\ status = 0
    /\ replies = <<>>
    /\ gen_calls = 0
    /\ response_text = NoText
    /\ write_failed = FALSE
    /\ branches = {}
    /\ query_calls = 0
    /\ pc = [th \in Threads |-> "idle"]
    /\ req = [th \in Threads |-> NoRequest]
    /\ outcome = [th \in Threads |-> "none"]

-----------------------------------------------------------------------------
(* callback: one webhook request carrying one event, served to completion *)

\* lines 71-77: a missing or an invalid signature aborts with 400
callback_rejected ==
    /\ status = 0
    /\ event' = [NoEvent EXCEPT !.kind = "rejected"]
    /\ status' = 400
    /\ UNCHANGED <<store, session, pushed, replies, gen_calls, response_text,
                   write_failed, branches, query_calls, threads>>

\* a text message event: handle_message pushes the picker and replies nothing;
\* a failed push is caught and printed
callback_message(user_id, text, now, push_ok) ==
    /\ status = 0
    /\ event' = [NoEvent EXCEPT !.kind = "message", !.user_id = user_id, !.now = now]
    /\ pushed' = IF push_ok THEN template_message(text, user_id, now) ELSE pushed
    /\ status' = 200
    /\ UNCHANGED <<store, session, replies, gen_calls, response_text, write_failed,
                   branches, query_calls, threads>>

\* a postback event: handle_postback runs; an exception that leaves it leaves
\* handler.handle and callback too, and the response is 500.  rows caps the
\* table: a postback that would grow it further is not explored.
callback_postback(rows, user_id, data, datetime, picker, commit_ok, query_ok, rank, gen) ==
    LET ev == [NoEvent EXCEPT !.kind = "postback", !.user_id = user_id, !.data = data,
                              !.datetime = datetime, !.picker = picker]
        f == handle_postback(Frame(store, session), ev, commit_ok, query_ok, rank, gen)
    IN  /\ status = 0
        /\ Len(f.store) <= rows
        /\ event' = ev
        /\ store' = f.store
        /\ session' = f.session
        /\ status' = IF f.raised THEN 500 ELSE 200
        /\ replies' = f.replies
        /\ gen_calls' = f.gen_calls
        /\ response_text' = f.response_text
        /\ write_failed' = f.write_failed
        /\ branches' = f.branches
        /\ query_calls' = f.query_calls
        /\ UNCHANGED <<pushed, threads>>

\* The outcomes of the collaborators are inputs; one that the handler never
\* asks for on this data and datetime is not varied.
commit_outcomes(data, datetime) ==
    IF /\ Contains(data, ActionScheduleTag)
       /\ valid_input(parse_user_message(data), datetime)
       /\ parses(datetime)
      THEN BOOLEAN ELSE {TRUE}

query_outcomes(data, datetime) ==
    IF /\ Contains(data, ActionCheckTag) \/ Contains(data, ActionReportTag)
       /\ parses(datetime)
      THEN BOOLEAN ELSE {TRUE}

gen_outcomes(data, datetime, query_ok) ==
    IF Contains(data, ActionReportTag) /\ parses(datetime) /\ query_ok
      THEN GenOutcomes ELSE {"unavailable"}

\* the database's choice among equal keys matters once a query can meet two rows;
\* the handler may have written one row more than the cap before it queries
rank_outcomes(rows, data, datetime, query_ok) ==
    IF /\ Contains(data, ActionCheckTag) \/ Contains(data, ActionReportTag)
       /\ parses(datetime)
       /\ query_ok
       /\ Len(store) + (IF Contains(data, ActionScheduleTag) THEN 1 ELSE 0) >= 2
      THEN Ranks(rows + 1) ELSE {insertion_rank(rows + 1)}

\* the user resolves the picker they were sent
picker_postback ==
    /\ status = 0
    /\ pushed # NoPicker
    /\ \E datetime \in DatetimeParams :
         \E commit_ok \in commit_outcomes(pushed.data, datetime),
            query_ok \in query_outcomes(pushed.data, datetime) :
           \E gen \in gen_outcomes(pushed.data, datetime, query_ok),
              rank \in rank_outcomes(MaxStore, pushed.data, datetime, query_ok) :
              callback_postback(MaxStore, pushed.to, pushed.data, datetime, TRUE,
                                commit_ok, query_ok, rank, gen)

\* a postback whose data no picker of this program carries
raw_postback ==
    /\ status = 0
    /\ \E user_id \in Users, data \in RawPayloads, datetime \in RawDatetimes :
      \E commit_ok \in commit_outcomes(data, datetime),
         query_ok \in query_outcomes(data, datetime) :
        \E gen \in gen_outcomes(data, datetime, query_ok),
           rank \in rank_outcomes(MaxStore, data, datetime, query_ok) :
           callback_postback(MaxStore, user_id, data, datetime, FALSE,
                             commit_ok, query_ok, rank, gen)

text_message ==
    /\ status = 0
    /\ \E user_id \in Users, text \in Texts, push_ok \in BOOLEAN :
        callback_message(user_id, text, Noon, push_ok)

\* line 79 and the framework: the response leaves, and with it the event, its
\* reply token and the handler's locals
respond ==
    /\ status # 0
    /\ event' = NoEvent
    /\ status' = 0
    /\ replies' = <<>>
    /\ gen_calls' = 0
    /\ response_text' = NoText
    /\ write_failed' = FALSE
    /\ branches' = {}
    /\ query_calls' = 0
    /\ UNCHANGED <<store, session, pushed, threads>>

Next ==
    \/ callback_rejected
    \/ text_message
    \/ picker_postback
    \/ raw_postback
    \/ respond

Spec == Init /\ [][Next]_vars

-----------------------------------------------------------------------------
(* The day listings: one user fills days with plain entries and asks for them *)

DayUsers == {"U1"}
DayTexts == {<<"a">>, <<"a", "a">>, CheckPhrase, ReportPhrase}
DayDatetimes == IsoStrings \cup {Unknown}

day_message ==
    /\ status = 0
    /\ \E user_id \in DayUsers, text \in DayTexts :
        callback_message(user_id, text, Noon, TRUE)

day_postback ==
    /\ status = 0
    /\ pushed # NoPicker
    /\ \E datetime \in DayDatetimes :
         \E query_ok \in query_outcomes(pushed.data, datetime) :
           \E gen \in gen_outcomes(pushed.data, datetime, query_ok),
              rank \in rank_outcomes(MaxRows, pushed.data, datetime, query_ok) :
              callback_postback(MaxRows, pushed.to, pushed.data, datetime, TRUE,
                                TRUE, query_ok, rank, gen)

NextDay ==
    \/ day_message
    \/ day_postback
    \/ respond

SpecDay == Init /\ [][NextDay]_vars

-----------------------------------------------------------------------------
(* The picker window: text messages of every intent at a spread of instants *)

WindowTexts == {<<"a">>, <<" ", "a">>, CheckPhrase, ReportPhrase}

window_message ==
    /\ status = 0
    /\ \E user_id \in Users, text \in WindowTexts, now \in Instants, push_ok \in BOOLEAN :
        callback_message(user_id, text, now, push_ok)

NextWindow ==
    \/ window_message
    \/ respond

SpecWindow == Init /\ [][NextWindow]_vars

-----------------------------------------------------------------------------
(* Requests served in parallel: the write of handle_postback, lines 200-225,  *)
(* one session call per step, every thread on the one session of line 40      *)

\* a thread takes a CreateSchedule postback that passes line 200 and whose
\* datetime parses; the requests in flight are of different owners
begin(th, user_id, text, datetime) ==
    LET user_message == parse_user_message(picker_data(text, user_id))
    IN  /\ pc[th] = "idle"
        /\ Len(store) < MaxStore
        /\ Contains(picker_data(text, user_id), ActionScheduleTag)
        /\ valid_input(user_message, datetime)
        /\ parses(datetime)
        /\ \A other \in Threads : pc[other] = "idle" \/ req[other].user_id # user_id
        /\ req' = [req EXCEPT ![th] = [user_id |-> user_id,
                                       user_message |-> user_message.value,
                                       schedule_datetime |-> datetime]]
        /\ pc' = [pc EXCEPT ![th] = "add"]
        /\ outcome' = [outcome EXCEPT ![th] = "none"]
        /\ UNCHANGED <<store, session, served>>

\* line 207
add(th) ==
    /\ pc[th] = "add"
    /\ session' = session_add(session,
                     Schedule(0, req[th].user_id, req[th].user_message,
                              fromisoformat(req[th].schedule_datetime)))
    /\ pc' = [pc EXCEPT ![th] = "commit"]
    /\ UNCHANGED <<store, served, req, outcome>>

\* line 208
commit(th, ok) ==
    LET done == session_commit(store, session, ok)
    IN  /\ pc[th] = "commit"
        /\ store' = done.table
        /\ session' = done.sess
        /\ pc' = [pc EXCEPT ![th] = IF done.raised THEN "rollback" ELSE "confirm"]
        /\ UNCHANGED <<served, req, outcome>>

\* line 213
rollback(th) ==
    /\ pc[th] = "rollback"
    /\ session' = session_rollback(session)
    /\ pc' = [pc EXCEPT ![th] = "apologise"]
    /\ UNCHANGED <<store, served, req, outcome>>

\* lines 209-211 or 214-216, then line 223
reply(th) ==
    /\ pc[th] \in {"confirm", "apologise"}
    /\ outcome' = [outcome EXCEPT ![th] = IF pc[th] = "confirm" THEN "saved"
                                          ELSE "store_error"]
    /\ pc' = [pc EXCEPT ![th] = "done"]
    /\ UNCHANGED <<store, session, served, req>>

\* the thread is free for the next request
finish(th) ==
    /\ pc[th] = "done"
    /\ pc' = [pc EXCEPT ![th] = "idle"]
    /\ UNCHANGED <<store, session, served, req, outcome>>

NextConc ==
    \/ \E th \in Threads, user_id \in Users, text \in Texts, datetime \in IsoStrings :
          begin(th, user_id, text, datetime)
    \/ \E th \in Threads : add(th)
    \/ \E th \in Threads, ok \in BOOLEAN : commit(th, ok)
    \/ \E th \in Threads : rollback(th)
    \/ \E th \in Threads : reply(th)
    \/ \E th \in Threads : finish(th)

SpecConc == Init /\ [][NextConc]_vars

-----------------------------------------------------------------------------
(* Properties *)

is_postback(ev, tag) == ev.kind = "postback" /\ Contains(ev.data, tag)

\* texts that are neither empty nor a trigger phrase once stripped
FreeTexts == {text \in Texts : Strip(text) \notin {<<>>, CheckPhrase, ReportPhrase}}

IsPrefix(s, t) == Len(s) <= Len(t) /\ SubSeq(t, 1, Len(s)) = s

\* the rows of one owner
owner_rows(table, user_id) == SelectSeq(table, LAMBDA row : row.user_id = user_id)

\* C1: when the picker pushed for a free text is resolved with a concrete
\* datetime t and the write does not fail, the newest row of the store carries
\* the text (stripped), t and the sender.
C1_RoundTripStoresText ==
    \A text \in FreeTexts :
        ( /\ event.kind = "postback"
          /\ event.picker
          /\ event.data = picker_data(text, event.user_id)
          /\ parses(event.datetime)
          /\ ~write_failed )
        => /\ store # <<>>
           /\ store[Len(store)] = Schedule(Len(store), event.user_id, Strip(text),
                                           fromisoformat(event.datetime))

\* a datetime that fromisoformat returned for a string of the picker
concrete(t) == \E s \in IsoStrings : t = fromisoformat(s)

C2_case(ev) ==
    /\ is_postback(ev, ActionScheduleTag)
    /\ ev.datetime = Unknown \/ ~parse_user_message(ev.data).found

\* C2: a CreateSchedule postback with the sentinel datetime or without a
\* user_message field replies first with the invalid-data notice and leaves the
\* store as it was; and every stored row has a concrete scheduled_datetime.
C2_InvalidSelectionWritesNothing ==
    /\ [](\A i \in 1..Len(store) : concrete(store[i].scheduled_datetime))
    /\ [][C2_case(event') =>
            /\ store' = store
            /\ replies' # <<>>
            /\ replies'[1] = InvalidText]_vars

C2_Witness ==
    /\ C2_case(event)
    /\ event.picker
    /\ event.datetime = Unknown
    /\ parse_user_message(event.data).value # <<>>
    /\ replies = <<InvalidText>>

\* C3: the listing replied to a QueryDay or GenerateReport postback holds the
\* lines of the sender's own rows of that day and no others.
C3_QueryPartitionedByOwner ==
    \A i \in 1..Len(replies) :
        (event.kind = "postback" /\ replies[i].kind \in {"list", "report"})
        => replies[i].lines =
             lines_of(query_day(owner_rows(store, event.user_id), replies[i].date,
                                insertion_rank(Len(store))))

\* C4: no callback attempts more than one reply with its reply token.
C4_AtMostOneReply == Len(replies) <= 1

matches(row, r) ==
    /\ row.user_id = r.user_id
    /\ row.message = r.user_message
    /\ row.scheduled_datetime = fromisoformat(r.schedule_datetime)

\* C5: a request that replied with the save confirmation has its row in the
\* store, whatever the other requests in flight did.
C5_ConfirmedMeansCommitted ==
    \A th \in Threads :
        (pc[th] = "done" /\ outcome[th] = "saved")
        => \E i \in 1..Len(store) : matches(store[i], req[th])

\* C6: a GenerateReport postback that replies with the no-events notice has not
\* called generate_content.
C6_NoEventsNoGeneration ==
    ( /\ is_postback(event, ActionReportTag)
      /\ \E i \in 1..Len(replies) : replies[i].kind = "no_report" )
    => gen_calls = 0

\* C7: a GenerateReport postback for a day with rows, with a candidate returned
\* by the collaborator, replies with the candidate's text.
C7_ReplyIsGeneratedText ==
    ( /\ is_postback(event, ActionReportTag)
      /\ \E i \in 1..Len(replies) : replies[i].kind = "report"
      /\ response_text.kind = "generated" )
    => replies[Len(replies)] = response_text

\* C8: every callback that passed the signature check is answered with 200.
C8_AlwaysOK == event.kind \in {"message", "postback"} => status = 200

\* C9: when the write of a CreateSchedule postback fails, the session is rolled
\* back, the reply is the store-error notice and no save confirmation, and the
\* store is as it was before the postback.
C9_FailedWriteRolledBack ==
    [][write_failed' =>
         /\ store' = store
         /\ session' = NewSession
         /\ replies' # <<>>
         /\ replies'[1] = StoreErrorText
         /\ \A i \in 1..Len(replies') : replies'[i].kind # "saved"]_vars

C9_Witness ==
    /\ write_failed
    /\ is_postback(event, ActionScheduleTag)
    /\ parses(event.datetime)
    /\ replies = <<StoreErrorText>>
    /\ store = <<>>

\* C10: the store only grows, by one row at a time, every row it held stays as
\* it was, and only a CreateSchedule postback with a datetime that parses adds a
\* row: text messages, QueryDay postbacks and GenerateReport postbacks do not.
C10_AppendOnly ==
    [][/\ IsPrefix(store, store')
       /\ store' # store =>
            /\ Len(store') = Len(store) + 1
            /\ is_postback(event', ActionScheduleTag)
            /\ parses(event'.datetime)
       /\ event'.kind = "message" => store' = store
       /\ (event'.kind = "postback" /\ ~Contains(event'.data, ActionScheduleTag))
            => store' = store]_vars

C10_Witness ==
    /\ store # <<>>
    /\ is_postback(event, ActionCheckTag)
    /\ ~Contains(event.data, ActionScheduleTag)
    /\ \E i \in 1..Len(replies) : replies[i].kind = "list"


\* a reply that lists the rows of a day
listed(r) == r.kind \in {"list", "report"}

\* the positions of the rows with scheduled_datetime in [d 00:00, d + 1 day 00:00)
rows_in_day(table, d) ==
    {j \in 1..Len(table) : /\ midnight(d) <= table[j].scheduled_datetime
                           /\ table[j].scheduled_datetime < midnight(d + 1)}

occurrences(lines, l) == Cardinality({k \in 1..Len(lines) : lines[k] = l})

\* C11: the listing replied for a picked timestamp of calendar date d is of date
\* d, and its lines are lines of rows in [d 00:00, d + 1 day 00:00), no line more
\* often than there are such rows: a row at d + 1 day 00:00 is not listed.  A
\* row at exactly d 00:00 is listed.
C11_ListedWithinDay ==
    \A i \in 1..Len(replies) :
        (event.kind = "postback" /\ listed(replies[i])) =>
            LET d == replies[i].date
                lines == replies[i].lines
            IN  /\ parses(event.datetime)
                /\ d = date(fromisoformat(event.datetime))
                /\ \A k \in 1..Len(lines) :
                       occurrences(lines, lines[k]) <=
                         Cardinality({j \in rows_in_day(store, d) :
                                        line_of(store[j]) = lines[k]})
                /\ \A j \in 1..Len(store) :
                       store[j].scheduled_datetime = midnight(d)
                       => \E k \in 1..Len(lines) : lines[k] = line_of(store[j])

\* a day with a row at its 00:00 and a row at the next day's 00:00, asked for
\* with a timestamp later in the day: one line
C11_Witness ==
    /\ is_postback(event, ActionCheckTag)
    /\ parses(event.datetime)
    /\ fromisoformat(event.datetime) > midnight(date(fromisoformat(event.datetime)))
    /\ \E j \in 1..Len(store) :
          store[j].scheduled_datetime = midnight(date(fromisoformat(event.datetime)))
    /\ \E j \in 1..Len(store) :
          store[j].scheduled_datetime = midnight(date(fromisoformat(event.datetime)) + 1)
    /\ Len(replies) = 1
    /\ replies[1].kind = "list"
    /\ Len(replies[1].lines) = 1


\* a reply to a day query the store answered, and the lines it shows
answers_day(r) == r.kind \in {"list", "no_events", "report", "no_report"}
lines_in(r) == IF listed(r) THEN r.lines ELSE <<>>

\* C12: every committed row of the day asked for appears in the reply, as the
\* line of its HH:MM and its text, as often as there are rows with that line;
\* when it is the only row of the day the reply lists exactly that one line.
C12_CreatedIsListed ==
    \A i \in 1..Len(replies) :
        (event.kind = "postback" /\ answers_day(replies[i])) =>
            LET d == replies[i].date
                lines == lines_in(replies[i])
                shown(j) == [hm |-> store[j].scheduled_datetime % SlotsPerDay,
                             message |-> store[j].message]
            IN  /\ \A j \in rows_in_day(store, d) :
                       occurrences(lines, shown(j)) >=
                         Cardinality({k \in rows_in_day(store, d) : shown(k) = shown(j)})
                /\ \A j \in rows_in_day(store, d) :
                       rows_in_day(store, d) = {j} => lines = <<shown(j)>>

\* the one row of a day, created through the picker, listed alone while the
\* other day has a row too
C12_Witness ==
    /\ is_postback(event, ActionCheckTag)
    /\ Len(store) = 2
    /\ Len(replies) = 1
    /\ replies[1].kind = "list"
    /\ \E j \in 1..Len(store) :
          /\ rows_in_day(store, replies[1].date) = {j}
          /\ store[j].message = <<"a", "a">>
          /\ replies[1].lines =
               <<[hm |-> strftime_HM(store[j].scheduled_datetime), message |-> <<"a", "a">>]>>


\* what response_text holds when the generation collaborator failed
FailureTexts == {AttributeErrorText, GenerationErrorText}

\* C13: a GenerateReport postback whose generation failed has replied, and its
\* reply is the one the report branch makes on the same store and the same
\* event when the collaborator returns no candidate: the listing of the day, or
\* the no-events notice of the day.
C13_FailureRepliesListing ==
    ( /\ is_postback(event, ActionReportTag)
      /\ status = 200
      /\ parses(event.datetime)
      /\ response_text \in FailureTexts )
    => /\ replies # <<>>
       /\ replies[Len(replies)].kind \in {"report", "no_report"}
       /\ \E rank \in Ranks(Len(store)) :
             <<replies[Len(replies)]>> =
               report_branch(Frame(store, session), event, TRUE, rank,
                             "no_candidate").replies

\* generate_content was called and raised on a day of two rows
C13_Witness ==
    /\ is_postback(event, ActionReportTag)
    /\ response_text = GenerationErrorText
    /\ gen_calls = 1
    /\ Len(replies) = 1
    /\ replies[1].kind = "report"
    /\ Len(replies[1].lines) = 2


\* C14: a QueryDay postback with the sentinel for a datetime replies with the
\* date-failed notice and sends no query; with a concrete datetime of date d,
\* once the store has answered, its reply is the list of d when rows_in_day is
\* not empty and the no-events notice of d when it is.
C14_SentinelOrListOrNoEvents ==
    ( /\ is_postback(event, ActionCheckTag)
      /\ ~Contains(event.data, ActionScheduleTag)
      /\ ~Contains(event.data, ActionReportTag) )
    => /\ event.datetime = Unknown =>
            /\ replies = <<DateFailedText>>
            /\ query_calls = 0
       /\ (parses(event.datetime) /\ status = 200) =>
            LET d == date(fromisoformat(event.datetime))
            IN  /\ Len(replies) = 1
                /\ query_calls = 1
                /\ rows_in_day(store, d) # {} =>
                      /\ replies[1].kind = "list"
                      /\ replies[1].date = d
                      /\ Len(replies[1].lines) = Cardinality(rows_in_day(store, d))
                /\ rows_in_day(store, d) = {} => replies[1] = NoEventsText(d)

\* the sentinel with rows in the store
C14_Witness ==
    /\ is_postback(event, ActionCheckTag)
    /\ event.picker
    /\ event.datetime = Unknown
    /\ store # <<>>
    /\ replies = <<DateFailedText>>
    /\ query_calls = 0


\* C15: the lines of a listing are those of the rows of the day in ascending
\* scheduled_datetime, rows of equal scheduled_datetime in the order of their
\* insertion.
C15_AscendingTiesByInsertion ==
    \A i \in 1..Len(replies) :
        (event.kind = "postback" /\ listed(replies[i])) =>
            replies[i].lines =
              lines_of(query_day(store, replies[i].date, insertion_rank(Len(store))))


\* C16: the ids of the rows are pairwise distinct, and a postback that replies
\* with the save confirmation has added one row, of an id no row had before and
\* carrying the sender, the text and the datetime confirmed, whether or not a
\* row with the same sender, text and datetime was there already.
C16_EveryCreateAddsARow ==
    /\ [](\A i, j \in 1..Len(store) : store[i].id = store[j].id => i = j)
    /\ [][(\E k \in 1..Len(replies') : replies'[k].kind = "saved") =>
            /\ Len(store') = Len(store) + 1
            /\ SubSeq(store', 1, Len(store)) = store
            /\ \A j \in 1..Len(store) : store[j].id # store'[Len(store')].id
            /\ \E k \in 1..Len(replies') :
                  /\ replies'[k].kind = "saved"
                  /\ store'[Len(store')].user_id = event'.user_id
                  /\ store'[Len(store')].message = replies'[k].message
                  /\ store'[Len(store')].scheduled_datetime =
                       fromisoformat(replies'[k].datetime)]_vars

\* the same entry created twice: two rows that differ in their id alone
C16_Witness ==
    /\ Len(store) >= 2
    /\ store[1].id # store[2].id
    /\ store[1].user_id = store[2].user_id
    /\ store[1].message = store[2].message
    /\ store[1].scheduled_datetime = store[2].scheduled_datetime
    /\ is_postback(event, ActionScheduleTag)
    /\ Len(store) = 2
    /\ replies = <<SavedText(store[2].message, event.datetime)>>


\* the instant a string of strftime_minute names, and an instant in seconds
instant_of(str) == [day |-> str.day, hour |-> str.hour, minute |-> str.minute, second |-> 0]
in_seconds(t) == ((t.day * 24 + t.hour) * 60 + t.minute) * 60 + t.second

\* C17: the picker built for a text message handled at instant T has min the
\* minute of T - 365 days and max the minute of T + 365 days, min < T < max, and
\* initial the hour of T, within [min, max]; whatever the intent of the text.
C17_PickerWindow ==
    [][(event'.kind = "message" /\ pushed' # pushed) =>
         LET T == event'.now
             min == instant_of(pushed'.min)
             max == instant_of(pushed'.max)
             initial == instant_of(pushed'.initial)
         IN  /\ pushed'.min = [day |-> T.day - 365, hour |-> T.hour, minute |-> T.minute]
             /\ pushed'.max = [day |-> T.day + 365, hour |-> T.hour, minute |-> T.minute]
             /\ in_seconds(min) < in_seconds(T)
             /\ in_seconds(T) < in_seconds(max)
             /\ pushed'.initial = [day |-> T.day, hour |-> T.hour, minute |-> 0]
             /\ in_seconds(min) <= in_seconds(initial)
             /\ in_seconds(initial) <= in_seconds(max)]_vars

\* the picker of a report, asked for in the last second of a day
C17_Witness ==
    /\ event.kind = "message"
    /\ event.now = [day |-> 400, hour |-> 23, minute |-> 59, second |-> 59]
    /\ StartsWith(pushed.data, ActionReportTag)
    /\ pushed.to = event.user_id
    /\ pushed.initial = [day |-> 400, hour |-> 23, minute |-> 0]
    /\ pushed.min = [day |-> 35, hour |-> 23, minute |-> 59]
    /\ pushed.max = [day |-> 765, hour |-> 23, minute |-> 59]


\* C18: when the picker pushed for a text comes back, the ifs of handle_postback
\* entered are exactly the one of the intent handle_message took the text for.
C18_IntentSurvivesRoundTrip ==
    \A text \in Texts :
        ( /\ event.kind = "postback"
          /\ event.picker
          /\ event.data = picker_data(text, event.user_id) )
        => branches = {intent_of(text)}

\* C19: every row of the store has a message of at least one character.
C19_NoEmptyText == \A j \in 1..Len(store) : Len(store[j].message) >= 1

\* a picker whose user_message field reads back empty, resolved with a concrete
\* datetime while the store holds a row: refused
C19_Witness ==
    /\ event.kind = "postback"
    /\ event.picker
    /\ parse_user_message(event.data).found
    /\ parse_user_message(event.data).value = <<>>
    /\ event.data # picker_data(<<>>, event.user_id)
    /\ parses(event.datetime)
    /\ replies = <<InvalidText>>
    /\ store # <<>>

====
